---- MODULE Spec2Model ----
(***************************************************************************)
(* Model of plugins/tech-insights.ts: the apiDefinitionFactRetriever       *)
(* handler and its README prober checkReadmeFile.                          *)
(*                                                                         *)
(* Strings are sequences of tokens.  A token is either a path separator    *)
(* ("/" or its percent-encoded form "%2F"), the ":" of a location ref, or  *)
(* a maximal run of other characters (a path segment, a scheme, the host   *)
(* part).  JavaScript values are tagged records so that undefined, a       *)
(* string and a boolean stay distinguishable.                              *)
(***************************************************************************)
EXTENDS Integers, Sequences, FiniteSets, TLC

----------------------------------------------------------------------------
(* Bounds                                                                  *)

MaxEntities == 2
MaxFiles == 2
MaxSegs == 3

----------------------------------------------------------------------------
(* JavaScript values                                                       *)

Undefined == [type |-> "undefined"]
Bool(b) == [type |-> "boolean", bool |-> b]
Str(s) == [type |-> "string", str |-> s]

\* JavaScript truthiness of the values that occur here.
Truthy(v) ==
    CASE v.type = "undefined" -> FALSE
      [] v.type = "boolean" -> v.bool
      [] v.type = "string" -> Len(v.str) > 0
      [] OTHER -> TRUE

----------------------------------------------------------------------------
(* Suffix patterns and the rewrite of the location target                  *)

README == <<"/", "README.md">>

\* The environment alternatives written without their trailing separator.
DevhubPatternNoTrailingSep(sep) ==
    { <<sep, ".devhub", sep>> \o env \o <<"components.yaml">> :
        env \in { <<>>, <<"dev">>, <<"int">>, <<"prod">> } }

\* /\/\.devhub\/(?:dev\/|int\/|prod\/)?components\.yaml$/ with separator sep
DevhubPattern(sep) ==
    { <<sep, ".devhub", sep>> \o env \o <<"components.yaml">> :
        env \in { <<>>, <<"dev", sep>>, <<"int", sep>>, <<"prod", sep>> } }

\* The encoded catalog-info pattern written with a lower-case escape.
RegexLowerCaseEscape ==
    << { <<"/", "catalog-info.yaml">> },
       { <<"%2f", "catalog-info.yaml">> },
       DevhubPattern("/"),
       DevhubPattern("%2F") >>

\* The first pattern written without its leading separator.
RegexUnanchoredName ==
    << { <<"catalog-info.yaml">> },
       { <<"%2F", "catalog-info.yaml">> },
       DevhubPattern("/"),
       DevhubPattern("%2F") >>

\* A pattern is the set of token sequences it accepts at the end of input.
COMPONENT_LOCATIONS_REGEX ==
    << { <<"/", "catalog-info.yaml">> },
       { <<"%2F", "catalog-info.yaml">> },
       DevhubPattern("/"),
       DevhubPattern("%2F") >>

EndsWith(str, suf) ==
    /\ Len(str) >= Len(suf)
    /\ SubSeq(str, Len(str) - Len(suf) + 1, Len(str)) = suf

\* str.replace(re, '/README.md') for a pattern anchored with $: the leftmost
\* match is the longest accepted suffix; without a match str is unchanged.
Replace(str, re) ==
    LET m == { alt \in re : EndsWith(str, alt) } IN
    IF m = {} THEN str
    ELSE LET alt == CHOOSE a \in m : \A b \in m : Len(b) <= Len(a)
         IN SubSeq(str, 1, Len(str) - Len(alt)) \o README

\* regexes.reduce((str, re) => str.replace(re, '/README.md'), target)
RECURSIVE Reduce(_, _)
Reduce(regexes, str) ==
    IF regexes = <<>> THEN str
    ELSE Reduce(Tail(regexes), Replace(str, Head(regexes)))

RewriteUrl(target) == Reduce(COMPONENT_LOCATIONS_REGEX, target)

\* parseLocationRef of @backstage/catalog-model: split at the first ":",
\* throw when there is none, when either side is empty, or when the type is
\* http or https.
ParseLocationRef(ref) ==
    LET colons == { k \in 1..Len(ref) : ref[k] = ":" } IN
    IF colons = {} THEN [threw |-> TRUE]
    ELSE LET k == CHOOSE c \in colons : \A d \in colons : c <= d
             type == SubSeq(ref, 1, k - 1)
             target == SubSeq(ref, k + 1, Len(ref))
         IN IF type = <<>> \/ target = <<>> \/ type \in { <<"http">>, <<"https">> }
            THEN [threw |-> TRUE]
            ELSE [threw |-> FALSE, type |-> type, target |-> target]

----------------------------------------------------------------------------
(* Facts of one entity                                                     *)

\* spec?.definition && spec?.definition.length > 0
HasDefinition(entity) ==
    LET definition == IF entity.spec.type = "undefined" THEN Undefined
                      ELSE entity.spec.definition
    IN IF ~Truthy(definition) THEN definition
       ELSE Bool(Len(definition.str) > 0)

\* entity.metadata.annotations?.[ANNOTATION_SOURCE_LOCATION]
SourceLocation(entity) ==
    IF entity.metadata.annotations.type = "undefined" THEN Undefined
    ELSE entity.metadata.annotations.sourceLocation

\* Returning true when there is nothing to probe.
NoSourceLocationResultTrue == TRUE

\* The value checkReadmeFile returns without probing.
NoSourceLocationResult == FALSE

\* A catch block that answers true.
ProbeResultCatchTrue(response) ==
    IF response.kind = "threw" THEN TRUE
    ELSE IF response.files.type = "undefined" THEN FALSE
    ELSE Len(response.files.list) = 1

\* "At least one file" instead of "exactly one file".
ProbeResultAtLeastOne(response) ==
    IF response.kind = "threw" THEN FALSE
    ELSE IF response.files.type = "undefined" THEN FALSE
    ELSE Len(response.files.list) >= 1

\* The try/catch around reader.search: response.files.length === 1, and
\* false for a raised error (a response without files raises a TypeError on
\* .length, which the same catch converts).
ProbeResult(response) ==
    IF response.kind = "threw" THEN FALSE
    ELSE IF response.files.type = "undefined" THEN FALSE
    ELSE Len(response.files.list) = 1

\* The fact record the map callback returns.
FactRecord(entity, hasDefinition, hasReadme) ==
    [ entity |-> [ namespace |-> entity.metadata.namespace,
                   kind |-> entity.kind,
                   name |-> entity.metadata.name ],
      facts |-> [ hasDefinition |-> hasDefinition,
                  hasReadme |-> Bool(hasReadme) ] ]

\* Collecting the values in the order the promises fulfil.
StoreResultInCompletionOrder(res, i, rec) ==
    LET free == { k \in 1..Len(res) : res[k] = Undefined }
        k == CHOOSE f \in free : \A g \in free : f <= g
    IN [res EXCEPT ![k] = rec]

\* Promise.all keeps the value of the i-th promise at index i.
StoreResult(res, i, rec) == [res EXCEPT ![i] = rec]

\* Fulfilling as soon as one promise has fulfilled.
AnyFulfilled(ts) == \E i \in 1..Len(ts) : ts[i].state = "fulfilled"

\* Promise.all fulfils once every promise has fulfilled.
AllFulfilled(ts) == \A i \in 1..Len(ts) : ts[i].state = "fulfilled"

\* Catching the rejection and carrying on with an empty entity list.
AwaitRejectedSwallowed(err) == [pc |-> "map", error |-> Undefined]

\* An awaited call that rejects, outside any try: the handler rejects with
\* the same error.
AwaitRejected(err) == [pc |-> "failed", error |-> err]

----------------------------------------------------------------------------
(* Inputs: what the catalog may return                                     *)

Seps == {"/", "%2F"}
Names == {"catalog-info.yaml", "components.yaml", ".devhub", "dev", "int", "prod", "src"}

RECURSIVE Paths(_)
Paths(n) ==
    IF n = 0 THEN { <<>> }
    ELSE LET shorter == Paths(n - 1) IN
         shorter \cup { p \o <<s, nm>> : p \in { q \in shorter : Len(q) = 2 * (n - 1) },
                                         s \in Seps, nm \in Names }

Locations == { <<"url", ":", "host">> \o p : p \in Paths(MaxSegs) }

Annotations(v) == [type |-> "object", sourceLocation |-> v]
ApiSpec(d) == [type |-> "object", definition |-> d]

Entity(name, annotations, spec) ==
    [ kind |-> "API",
      metadata |-> [ namespace |-> "default", name |-> name,
                     annotations |-> annotations ],
      spec |-> spec ]

\* A small pool covering every shape of annotation and of spec.
EntityPool ==
    { Entity("a", Undefined, Undefined),
      Entity("b", Annotations(Undefined), ApiSpec(Undefined)),
      Entity("a", Annotations(Str(<<>>)), ApiSpec(Str(<<>>))),
      Entity("c", Annotations(Str(<<"host", "/", "catalog-info.yaml">>)),
             ApiSpec(Str(<<"openapi">>))),
      Entity("b", Annotations(Str(<<"url", ":", "host", "/", "catalog-info.yaml">>)),
             ApiSpec(Str(<<"openapi">>))),
      Entity("c", Annotations(Str(<<"url", ":", "host", "%2F", ".devhub", "%2F",
                                    "prod", "%2F", "components.yaml">>)),
             ApiSpec(Str(<<>>))) }

RECURSIVE Lists(_, _)
Lists(S, n) ==
    IF n = 0 THEN { <<>> }
    ELSE LET shorter == Lists(S, n - 1) IN
         shorter \cup { Append(l, e) : l \in { q \in shorter : Len(q) = n - 1 }, e \in S }

PoolLists == Lists(EntityPool, MaxEntities)

\* One entity at every location of the bounded location language.
LocationLists ==
    { << Entity("a", Annotations(Str(loc)), ApiSpec(Str(<<"openapi">>))) >> :
        loc \in Locations }

FileLists == Lists({"file"}, MaxFiles)

Responses ==
    { [kind |-> "returned", files |-> Undefined] }
    \cup { [kind |-> "returned", files |-> [type |-> "array", list |-> fl]] :
             fl \in FileLists }

Threw == [kind |-> "threw"]

NoResponse == [kind |-> "none"]

----------------------------------------------------------------------------
(* State                                                                   *)

VARIABLES
    pc,           \* position of the handler
    error,        \* the error the handler rejected with
    raised,       \* the collaborator call that raised before the fan-out
    entities,     \* entities.items
    tasks,        \* one entry per started map callback
    results,      \* the value array of Promise.all
    returned,     \* the handler's return value
    searchCalls,  \* the reader.search calls issued, in order
    order         \* the indices of the callbacks, in the order they returned

vars == <<pc, error, raised, entities, tasks, results, returned, searchCalls, order>>

Init ==
    /\ pc = "getOwnServiceCredentials"
    /\ error = Undefined
    /\ raised = Undefined
    /\ entities = <<>>
    /\ tasks = <<>>
    /\ results = <<>>
    /\ returned = Undefined
    /\ searchCalls = <<>>
    /\ order = <<>>

----------------------------------------------------------------------------
(* Handler: authentication and catalog listing                             *)

Reject(err) ==
    /\ raised' = Str(err)
    /\ pc' = AwaitRejected(Str(err)).pc
    /\ error' = AwaitRejected(Str(err)).error
    /\ UNCHANGED <<entities, tasks, results, returned, searchCalls, order>>

GetOwnServiceCredentialsReturns ==
    /\ pc = "getOwnServiceCredentials"
    /\ pc' = "getPluginRequestToken"
    /\ UNCHANGED <<error, raised, entities, tasks, results, returned, searchCalls, order>>

GetOwnServiceCredentialsThrows ==
    /\ pc = "getOwnServiceCredentials"
    /\ Reject("credentialsError")

GetPluginRequestTokenReturns ==
    /\ pc = "getPluginRequestToken"
    /\ pc' = "getEntities"
    /\ UNCHANGED <<error, raised, entities, tasks, results, returned, searchCalls, order>>

GetPluginRequestTokenThrows ==
    /\ pc = "getPluginRequestToken"
    /\ Reject("tokenError")

GetEntitiesReturns(lists) ==
    /\ pc = "getEntities"
    /\ \E items \in lists : entities' = items
    /\ pc' = "map"
    /\ UNCHANGED <<error, raised, tasks, results, returned, searchCalls, order>>

GetEntitiesThrows ==
    /\ pc = "getEntities"
    /\ Reject("catalogError")

----------------------------------------------------------------------------
(* Fan-out: the map callback of each entity, run up to its first await     *)

Task(state, entity, hasReadme, target, response) ==
    [ state |-> state, hasDefinition |-> HasDefinition(entity),
      hasReadme |-> hasReadme, target |-> target, response |-> response ]

MapCallback ==
    /\ pc = "map"
    /\ Len(tasks) < Len(entities)
    /\ LET i == Len(tasks) + 1
           entity == entities[i]
           sourceLocation == SourceLocation(entity)
       IN IF ~Truthy(sourceLocation)
          THEN /\ tasks' = Append(tasks, Task("probed", entity,
                                  Bool(NoSourceLocationResult), Undefined, NoResponse))
               /\ UNCHANGED searchCalls
          ELSE LET ref == ParseLocationRef(sourceLocation.str) IN
               IF ref.threw
               THEN /\ tasks' = Append(tasks, Task("probed", entity,
                                       Bool(FALSE), Undefined, NoResponse))
                    /\ UNCHANGED searchCalls
               ELSE /\ tasks' = Append(tasks, Task("searching", entity,
                                       Undefined, Str(ref.target), NoResponse))
                    /\ searchCalls' = Append(searchCalls,
                                       [index |-> i, url |-> RewriteUrl(ref.target)])
    /\ UNCHANGED <<pc, error, raised, entities, results, returned, order>>

\* Promise.all over the mapped promises.
PromiseAll ==
    /\ pc = "map"
    /\ Len(tasks) = Len(entities)
    /\ pc' = "awaitAll"
    /\ results' = [i \in 1..Len(entities) |-> Undefined]
    /\ UNCHANGED <<error, raised, entities, tasks, returned, searchCalls, order>>

----------------------------------------------------------------------------
(* Fan-in                                                                  *)

Settle(i, response) ==
    /\ pc = "awaitAll"
    /\ tasks[i].state = "searching"
    /\ tasks' = [tasks EXCEPT ![i].state = "probed",
                              ![i].response = response,
                              ![i].hasReadme = Bool(ProbeResult(response))]
    /\ UNCHANGED <<pc, error, raised, entities, results, returned, searchCalls, order>>

SearchReturns ==
    \E i \in 1..Len(tasks) : \E response \in Responses : Settle(i, response)

SearchThrows ==
    \E i \in 1..Len(tasks) : Settle(i, Threw)

\* The callback resumes after await checkReadmeFile(...) and returns its record.
CallbackReturns ==
    \E i \in 1..Len(tasks) :
        /\ pc = "awaitAll"
        /\ tasks[i].state = "probed"
        /\ tasks' = [tasks EXCEPT ![i].state = "fulfilled"]
        /\ results' = StoreResult(results, i,
                         FactRecord(entities[i], tasks[i].hasDefinition,
                                    tasks[i].hasReadme.bool))
        /\ order' = Append(order, i)
        /\ UNCHANGED <<pc, error, raised, entities, returned, searchCalls>>

HandlerReturns ==
    /\ pc = "awaitAll"
    /\ AllFulfilled(tasks)
    /\ pc' = "returned"
    /\ returned' = [type |-> "array", list |-> results]
    /\ UNCHANGED <<error, raised, entities, tasks, results, searchCalls, order>>

----------------------------------------------------------------------------
(* Specifications                                                          *)

Steps ==
    \/ GetOwnServiceCredentialsReturns
    \/ GetOwnServiceCredentialsThrows
    \/ GetPluginRequestTokenReturns
    \/ GetPluginRequestTokenThrows
    \/ GetEntitiesThrows
    \/ MapCallback
    \/ PromiseAll
    \/ SearchReturns
    \/ SearchThrows
    \/ CallbackReturns
    \/ HandlerReturns

Next == GetEntitiesReturns(PoolLists) \/ Steps

Spec == Init /\ [][Next]_vars

\* Each issued search call eventually returns or raises, and the event loop
\* runs every continuation that is ready.
Fairness ==
    /\ WF_vars(SearchReturns \/ SearchThrows)
    /\ WF_vars(CallbackReturns)
    /\ WF_vars(HandlerReturns)

FairSpec == Init /\ [][Next]_vars /\ Fairness

\* One invocation over a single entity at any location of the bounded
\* location language.
RewriteNext == GetEntitiesReturns(LocationLists) \/ Steps

RewriteSpec == Init /\ [][RewriteNext]_vars

----------------------------------------------------------------------------
(* Properties                                                              *)

Indices == 1..Len(entities)

EntityRef(entity) ==
    [ namespace |-> entity.metadata.namespace, kind |-> entity.kind,
      name |-> entity.metadata.name ]

SearchedIndices == { searchCalls[k].index : k \in 1..Len(searchCalls) }

OneFile(response) ==
    /\ response.kind = "returned"
    /\ response.files.type = "array"
    /\ Len(response.files.list) = 1

\* C1: a search call that raises gives its entity hasReadme = false, never
\* makes the handler fail, and leaves every other entity's record with the
\* hasReadme value its own search result determines.
C1_ProbeErrorsContained ==
    /\ (\E i \in 1..Len(tasks) : tasks[i].response = Threw) => pc # "failed"
    /\ pc = "returned" =>
         /\ Len(returned.list) = Len(entities)
         /\ \A i \in Indices :
              /\ tasks[i].response = Threw =>
                   returned.list[i].facts.hasReadme = Bool(FALSE)
              /\ tasks[i].response.kind = "returned" =>
                   returned.list[i].facts.hasReadme = Bool(OneFile(tasks[i].response))

C1_Witness ==
    /\ pc = "returned"
    /\ \E i, j \in Indices :
         /\ tasks[i].response = Threw
         /\ returned.list[i].facts.hasReadme = Bool(FALSE)
         /\ OneFile(tasks[j].response)
         /\ returned.list[j].facts.hasReadme = Bool(TRUE)

\* C2: the returned list has as many records as the entity list, and the
\* record at index i carries namespace, kind and name of the entity at index
\* i, whatever the order in which the searches completed.
C2_OrderPreserved ==
    pc = "returned" =>
      /\ Len(returned.list) = Len(entities)
      /\ \A i \in Indices : returned.list[i].entity = EntityRef(entities[i])

C2_Witness ==
    /\ pc = "returned"
    /\ order = <<2, 1>>
    /\ EntityRef(entities[1]) # EntityRef(entities[2])
    /\ tasks[1].response.kind # "none"
    /\ tasks[2].response.kind # "none"

\* C3: when the annotation parses and the search returns normally, hasReadme
\* is true exactly when the file list has one element.
C3_ExactlyOneFile ==
    \A i \in 1..Len(tasks) :
      (tasks[i].response.kind = "returned" /\ tasks[i].response.files.type = "array") =>
        /\ tasks[i].hasReadme = Bool(Len(tasks[i].response.files.list) = 1)
        /\ pc = "returned" =>
             returned.list[i].facts.hasReadme =
               Bool(Len(tasks[i].response.files.list) = 1)

C3_Witness ==
    /\ pc = "returned"
    /\ \E i, j \in Indices :
         /\ tasks[i].response.kind = "returned"
         /\ tasks[i].response.files.type = "array"
         /\ Len(tasks[i].response.files.list) = 2
         /\ returned.list[i].facts.hasReadme = Bool(FALSE)
         /\ OneFile(tasks[j].response)
         /\ returned.list[j].facts.hasReadme = Bool(TRUE)

NoAnnotation(entity) ==
    \/ entity.metadata.annotations = Undefined
    \/ entity.metadata.annotations.sourceLocation = Undefined
    \/ entity.metadata.annotations.sourceLocation = Str(<<>>)

\* C4: an entity without source-location annotation (no annotations map, no
\* key, or an empty value) gets hasReadme = false and no search call is made
\* for it.
C4_NoAnnotationNoSearch ==
    \A i \in Indices :
      NoAnnotation(entities[i]) =>
        /\ i \notin SearchedIndices
        /\ i <= Len(tasks) => tasks[i].hasReadme = Bool(FALSE)
        /\ pc = "returned" => returned.list[i].facts.hasReadme = Bool(FALSE)

C4_Witness ==
    /\ pc = "returned"
    /\ \E i, j \in Indices :
         /\ entities[i].metadata.annotations # Undefined
         /\ entities[i].metadata.annotations.sourceLocation = Str(<<>>)
         /\ returned.list[i].facts.hasReadme = Bool(FALSE)
         /\ j \in SearchedIndices
         /\ SearchedIndices = {j}

DefinitionNonEmpty(entity) ==
    /\ entity.spec # Undefined
    /\ entity.spec.definition # Undefined
    /\ Len(entity.spec.definition.str) > 0

\* C5: in every returned record hasDefinition is the boolean true for a
\* present, non-empty spec.definition and the boolean false otherwise.
C5_HasDefinitionBoolean ==
    pc = "returned" =>
      \A i \in Indices :
        returned.list[i].facts.hasDefinition = Bool(DefinitionNonEmpty(entities[i]))

CatalogInfoSuffixes == { <<"/", "catalog-info.yaml">>, <<"%2F", "catalog-info.yaml">> }

Target(call) == tasks[call.index].target.str

Calls == { searchCalls[k] : k \in 1..Len(searchCalls) }

DropLast(str, n) == SubSeq(str, 1, Len(str) - n)

\* C6: a target ending in /catalog-info.yaml or %2Fcatalog-info.yaml is
\* searched with exactly that suffix replaced by /README.md.
C6_CatalogInfoRewritten ==
    \A call \in Calls :
      (\E suf \in CatalogInfoSuffixes : EndsWith(Target(call), suf)) =>
        call.url = DropLast(Target(call), 2) \o <<"/", "README.md">>

C6_Witness ==
    \E call \in Calls :
      /\ EndsWith(Target(call), <<"src", "%2F", "catalog-info.yaml">>)
      /\ call.url = DropLast(Target(call), 2) \o <<"/", "README.md">>
      /\ tasks[call.index].state = "fulfilled"

Environments == {"dev", "int", "prod"}

ConventionSuffixes ==
    { <<sep, ".devhub", sep, env, sep, "components.yaml">> :
        sep \in Seps, env \in Environments }

\* C7: a target ending in the components.yaml convention (components.yaml
\* in the dev, int or prod directory of .devhub, separators all plain or all
\* percent-encoded) is searched with that whole suffix replaced by
\* /README.md.
C7_ComponentsRewritten ==
    \A call \in Calls :
      \A suf \in ConventionSuffixes :
        EndsWith(Target(call), suf) =>
          call.url = DropLast(Target(call), Len(suf)) \o <<"/", "README.md">>

C7_Witness ==
    \E call \in Calls :
      /\ Target(call) = <<"host", "%2F", ".devhub", "%2F", "int", "%2F", "components.yaml">>
      /\ call.url = <<"host", "/", "README.md">>
      /\ tasks[call.index].state = "fulfilled"

\* C8: when the credentials call, the token call or the catalog listing
\* raises, the handler fails with that error, returns no records and issues
\* no search call.
C8_ListingErrorsPropagate ==
    raised # Undefined =>
      /\ pc = "failed"
      /\ error = raised
      /\ returned = Undefined
      /\ tasks = <<>>
      /\ searchCalls = <<>>

C8_Witness ==
    /\ pc = "failed"
    /\ raised = Str("catalogError")
    /\ error = Str("catalogError")

\* C9: the handler returns only after the fact computation of every entity
\* has finished, and once the search calls are issued and the handler waits
\* for them it eventually returns.
C9_ReturnsAfterAll ==
    /\ [](pc = "returned" =>
            /\ Len(tasks) = Len(entities)
            /\ \A i \in Indices : tasks[i].state = "fulfilled")
    /\ (pc = "awaitAll") ~> (pc = "returned")

C9_Witness ==
    /\ pc = "returned"
    /\ Len(entities) = MaxEntities
    /\ \A i \in Indices : tasks[i].response.kind # "none"

Permutations4 ==
    { p \in [1..4 -> 1..4] : \A a, b \in 1..4 : p[a] = p[b] => a = b }

RECURSIVE Replacements(_, _)
\* The number of patterns that change the string during the reduce.
Replacements(regexes, str) ==
    IF regexes = <<>> THEN 0
    ELSE LET next == Replace(str, Head(regexes)) IN
         (IF next # str THEN 1 ELSE 0) + Replacements(Tail(regexes), next)

\* The calls whose search has not completed yet.  The URL and the target of
\* a call never change after it is issued.
PendingCalls == { call \in Calls : tasks[call.index].state = "searching" }

\* C10: at most one of the four patterns replaces anything, the rewritten
\* URL is the same for every order of the patterns, and a target matching
\* no pattern is searched unchanged.
C10_OrderIndependent ==
    \A call \in PendingCalls :
      LET target == Target(call) IN
      /\ Replacements(COMPONENT_LOCATIONS_REGEX, target) <= 1
      /\ \A p \in Permutations4 :
           Reduce([k \in 1..4 |-> COMPONENT_LOCATIONS_REGEX[p[k]]], target) = call.url
      /\ (\A k \in 1..4 : Replace(target, COMPONENT_LOCATIONS_REGEX[k]) = target) =>
           call.url = target

C10_Witness ==
    \E call \in PendingCalls :
      /\ Replacements(COMPONENT_LOCATIONS_REGEX, Target(call)) = 1
      /\ EndsWith(Target(call), <<"components.yaml", "%2F", "catalog-info.yaml">>)
      /\ call.url = DropLast(Target(call), 2) \o <<"/", "README.md">>

====
